---- MODULE Spec2Model ----
(***************************************************************************)
(* A model of pyopenuv's request executor (pyopenuv/client.py): the client *)
(* configuration, the retry wrapper built by backoff.on_exception, one     *)
(* attempt of _async_request with its session policy, and the give-up      *)
(* handler that classifies the exception of the failed attempt.            *)
(*                                                                         *)
(* Strings are TLA+ strings; str(float), the request URL and str(err) are  *)
(* built character by character so that the substring test of              *)
(* _is_unauthorized_exception is evaluated on the text the code sees.      *)
(***************************************************************************)
EXTENDS Integers, Sequences, FiniteSets, TLC

(***************************************************************************)
(* Bounds of the model.                                                    *)
(***************************************************************************)
\* largest request_retries a client is constructed with
MaxRetries == 2

\* attempts after which a call that never gives up (max_tries = 0) is cut off
MaxAttempts == MaxRetries + 1

(***************************************************************************)
(* Program constants.                                                      *)
(***************************************************************************)
API_URL_SCAFFOLD == "https://api.openuv.io/api/v1"

\* 3.5, in thousandths
DEFAULT_PROTECTION_HIGH == 3500

\* 3.5, in thousandths
DEFAULT_PROTECTION_LOW == 3500

DEFAULT_REQUEST_RETRIES == 10

DEFAULT_TIMEOUT == 30

TEST_API_KEY == "12345"

(***************************************************************************)
(* Text helpers.                                                           *)
(***************************************************************************)
\* Python's `sub in s` on strings
Contains(s, sub) ==
    \E i \in 1..(Len(s) - Len(sub) + 1) : SubSeq(s, i, i + Len(sub) - 1) = sub

Digit(d) == SubSeq("0123456789", d + 1, d + 1)

RECURSIVE IntStr(_)
\* str(n) for a natural number n
IntStr(n) == IF n < 10 THEN Digit(n) ELSE IntStr(n \div 10) \o Digit(n % 10)

\* the fractional digits of m thousandths, without trailing zeros ("0" if none)
FracStr(m) ==
    IF m % 1000 = 0 THEN "0"
    ELSE IF m % 100 = 0 THEN Digit(m \div 100)
    ELSE IF m % 10 = 0 THEN Digit(m \div 100) \o Digit((m \div 10) % 10)
    ELSE Digit(m \div 100) \o Digit((m \div 10) % 10) \o Digit(m % 10)

\* str(x) for the float x = milli / 1000: shortest repr, always with a ".<digits>"
FloatStr(milli) ==
    LET a == IF milli < 0 THEN 0 - milli ELSE milli
    IN  (IF milli < 0 THEN "-" ELSE "") \o IntStr(a \div 1000) \o "." \o FracStr(a % 1000)

(***************************************************************************)
(* Values the environment supplies.                                        *)
(***************************************************************************)
\* the tasks that may call the client
Calls == {"a", "b"}

\* (latitude, longitude, altitude) given to the constructor, in thousandths
Locations ==
    { <<51528, -382, 1609300>>,
      <<51403, -382, 0>>,
      <<51528, -401, 1609300>>,
      <<51528, -382, 403000>> }

\* what one attempt meets: a response (status and body), a timeout before the
\* response, or a dropped connection
Outcomes ==
    { [kind |-> "response", status |-> 200, body |-> "payload"],
      [kind |-> "response", status |-> 200, body |-> "garbage"],
      [kind |-> "response", status |-> 200, body |-> "html"],
      [kind |-> "response", status |-> 401, body |-> "nokey"],
      [kind |-> "response", status |-> 403, body |-> "nokey"],
      [kind |-> "response", status |-> 403, body |-> "quota"],
      [kind |-> "response", status |-> 500, body |-> "empty"],
      [kind |-> "timeout", status |-> 0, body |-> "empty"],
      [kind |-> "disconnect", status |-> 0, body |-> "empty"] }

\* the reason phrase the server sends with a status
Reason(status) ==
    CASE status = 200 -> "OK"
      [] status = 401 -> "Unauthorized"
      [] status = 403 -> "Forbidden"
      [] OTHER -> "Internal Server Error"

(***************************************************************************)
(* Exceptions and errors.                                                  *)
(***************************************************************************)
NoExc == [type |-> "None", str |-> ""]

\* aiohttp.client_exceptions.ClientError and its subclasses
ClientError == {"ClientError", "ClientResponseError", "ContentTypeError",
                "ServerDisconnectedError"}

\* asyncio.TimeoutError
TimeoutError == {"TimeoutError"}

\* pyopenuv.errors: OpenUvError and its subclasses
OpenUvError == {"OpenUvError", "ApiUnavailableError", "InvalidApiKeyError",
                "RateLimitExceededError", "RequestError"}

\* an error class that defines no __cause__ attribute of its own
Unset == [type |-> "unset", str |-> ""]

NoResult == [kind |-> "none", type |-> "None", msg |-> "", cause |-> NoExc,
             data |-> "None"]

Return(data) == [kind |-> "return", type |-> "None", msg |-> "", cause |-> NoExc,
                 data |-> data]

Raise(type, msg, cause) == [kind |-> "raise", type |-> type, msg |-> msg,
                            cause |-> cause, data |-> "None"]

\* the public operation a task runs: its name and its arguments
NoOp == [name |-> "", args |-> << >>]

\* **kwargs of a request without params and headers
NoKwargs == [params |-> << >>, headers |-> << >>]

IdleCall ==
    [pc |-> "idle", endpoint |-> "", params |-> << >>, max_tries |-> 0,
     made_by |-> "", tries |-> 0, use_running_session |-> FALSE,
     log |-> << >>, transient_open |-> 0, waits |-> 0, result |-> NoResult,
     op |-> NoOp, headers |-> << >>, stage |-> "data",
     target |-> [endpoint |-> "", kwargs |-> NoKwargs], sent |-> << >>,
     api_status |-> "none", during |-> {}]

(***************************************************************************)
(* State.                                                                  *)
(***************************************************************************)
VARIABLES
    api_key,          \* Client._api_key
    request_retries,  \* Client._request_retries
    session,          \* Client._session: "None" or "supplied"
    session_closed,   \* Client._session.closed
    latitude,         \* Client.latitude
    longitude,        \* Client.longitude
    altitude,         \* Client.altitude
    async_request,    \* Client.async_request: the retry wrapper in force
    call,             \* per task: the call it has in progress
    check_status_before_request,  \* the constructor's pre-request status check
    class_cause,      \* per error class: the class attribute __cause__
    websession_closed \* .closed of the session given to validate_api_key

vars == <<api_key, request_retries, session, session_closed, latitude,
          longitude, altitude, async_request, call,
          check_status_before_request, class_cause, websession_closed>>

config == <<api_key, request_retries, session, latitude, longitude, altitude,
            check_status_before_request>>

\* state outside the client: error classes and the caller's other session
outside == <<class_cause, websession_closed>>

(***************************************************************************)
(* Client.__init__ and the retry wrapper.                                  *)
(***************************************************************************)
\* the wrapper backoff.on_exception(expo, (TimeoutError, ClientError),
\* max_tries=request_retries, on_giveup=...) returns; `made_by` records the
\* method that built it
wrap_request_method(retries, by) == [max_tries |-> retries, made_by |-> by]

\* Client(api_key, latitude, longitude, altitude=..., request_retries=...,
\* session=...), with the pre-request status check set to `check`
Construct(check) ==
    /\ api_key = TEST_API_KEY
    /\ request_retries \in 0..MaxRetries
    /\ session \in {"None", "supplied"}
    /\ session_closed = FALSE
    /\ \E loc \in Locations :
         /\ latitude = FloatStr(loc[1])
         /\ longitude = FloatStr(loc[2])
         /\ altitude = FloatStr(loc[3])
    /\ async_request = wrap_request_method(request_retries, "__init__")
    /\ call = [c \in Calls |-> IdleCall]
    /\ check_status_before_request = check
    /\ class_cause = [e \in OpenUvError |-> Unset]
    /\ websession_closed = FALSE

Init == Construct(FALSE)

(***************************************************************************)
(* One attempt: Client._async_request.                                     *)
(***************************************************************************)
\* kwargs["params"][key] = value on a dict kept as a sequence of pairs:
\* an existing key keeps its place, a new key goes last
SetParam(params, key, value) ==
    IF \E i \in 1..Len(params) : params[i][1] = key
    THEN [i \in 1..Len(params) |->
            IF params[i][1] = key THEN <<key, value>> ELSE params[i]]
    ELSE Append(params, <<key, value>>)

RequestParams_keeps_caller_values(params) ==
    LET SetDefault(ps, key, value) ==
            IF \E i \in 1..Len(ps) : ps[i][1] = key THEN ps
            ELSE Append(ps, <<key, value>>)
    IN  SetDefault(SetDefault(SetDefault(params, "lat", latitude),
                              "lng", longitude), "alt", altitude)

\* the params of the request after lines 80-83
RequestParams(params) ==
    SetParam(SetParam(SetParam(params, "lat", latitude), "lng", longitude),
             "alt", altitude)

RECURSIVE Query(_)
\* the query string of a params dict
Query(params) ==
    IF Len(params) = 0 THEN ""
    ELSE LET h == Head(params)
         IN  h[1] \o "=" \o h[2]
               \o (IF Len(params) > 1 THEN "&" ELSE "") \o Query(Tail(params))

\* the URL the request is sent to
Url(endpoint, params) ==
    API_URL_SCAFFOLD \o "/" \o endpoint \o "?" \o Query(RequestParams(params))

UseRunningSession_ignores_closed == session # "None"

\* line 85: use_running_session := self._session and not self._session.closed
UseRunningSession == session # "None" /\ ~session_closed

\* str(ClientResponseError)
ResponseErrorStr(status, message, url) ==
    IntStr(status) \o ", message='" \o message \o "', url='" \o url \o "'"

\* the exception lines 90-94 raise for an outcome (NoExc when they complete)
RaisedBy(o, url) ==
    CASE o.kind = "timeout" -> [type |-> "TimeoutError", str |-> ""]
      [] o.kind = "disconnect" ->
            [type |-> "ServerDisconnectedError", str |-> "Server disconnected"]
      [] o.kind = "response" /\ o.status >= 400 ->
            [type |-> "ClientResponseError",
             str |-> ResponseErrorStr(o.status, Reason(o.status), url)]
      [] o.kind = "response" /\ o.status < 400 /\ o.body = "html" ->
            [type |-> "ContentTypeError",
             str |-> ResponseErrorStr(o.status,
                "Attempt to decode JSON with unexpected mimetype: text/html", url)]
      [] o.kind = "response" /\ o.status < 400 /\ o.body = "garbage" ->
            [type |-> "JSONDecodeError",
             str |-> "Expecting value: line 1 column 1 (char 0)"]
      [] OTHER -> NoExc

\* await resp.json() on a decodable body
Json(body) == [decoded |-> body]

\* lines 96-97: whether the session used by the attempt is closed after it
CloseAfterUse_always(use_running_session) == TRUE

CloseAfterUse(use_running_session) == ~use_running_session

(***************************************************************************)
(* Giving up: Client._handle_on_giveup.                                    *)
(***************************************************************************)
\* sys.exc_info() in the handler: the exception being handled, which is the
\* one the latest attempt raised (excs: the exceptions of the attempts so far)
exc_info_first(excs) == excs[1]

exc_info(excs) == excs[Len(excs)]

is_unauthorized_exception(err) ==
    /\ err.type \in ClientError
    /\ \E code \in {"401", "403"} : Contains(err.str, code)

handle_on_giveup(excs) ==
    LET err == exc_info(excs)
    IN  IF is_unauthorized_exception(err)
        THEN Raise("InvalidApiKeyError", "Invalid API key", err)
        ELSE Raise("RequestError", err.str, err)

(***************************************************************************)
(* The retry loop of backoff.on_exception around _async_request.           *)
(***************************************************************************)
\* the exceptions the wrapper retries on
Retried(err) == err.type \in (TimeoutError \cup ClientError)

\* the wrapper is built without a giveup predicate: backoff's default
giveup(err) == FALSE

max_tries_exceeded_early(tries, max_tries) == tries >= max_tries - 1

max_tries_exceeded(tries, max_tries) == tries = max_tries

max_tries_of_current_wrapper(k) == async_request.max_tries

\* max_tries of the wrapper that runs call record k: bound when the wrapper
\* was built, and the wrapper was looked up when the call started
max_tries_of(k) == k.max_tries

\* the exceptions raised by the attempts of call record k, oldest first
Excs(k) ==
    [i \in 1..Len(k.log) |-> RaisedBy(k.log[i].outcome, Url(k.endpoint, k.params))]

\* the headers of the request after lines 77-78
RequestHeaders(headers) == SetParam(headers, "x-access-token", api_key)

\* the total timeout of the session an attempt uses: DEFAULT_TIMEOUT for a
\* session created at line 88, 0 for the supplied session (the caller's own)
SessionTimeout(use_running_session) ==
    IF use_running_session THEN 0 ELSE DEFAULT_TIMEOUT

\* the request lines 77-92 send for call record k
Request(k) ==
    [url |-> Url(k.endpoint, k.params),
     headers |-> RequestHeaders(k.headers),
     params |-> RequestParams(k.params),
     session |-> IF UseRunningSession THEN "supplied" ELSE "transient",
     timeout |-> SessionTimeout(UseRunningSession)]

\* lines 77-90 of one more attempt of call record k: the session is chosen
\* (created when the client's own cannot be used) and the request is sent
Issue(k) ==
    [k EXCEPT !.pc = "inflight",
              !.tries = k.tries + 1,
              !.use_running_session = UseRunningSession,
              !.transient_open =
                  IF UseRunningSession THEN k.transient_open
                  ELSE k.transient_open + 1,
              !.sent = Append(k.sent, Request(k))]

\* self.async_request(method, endpoint, **kwargs) by the task of record k:
\* the wrapper in force is looked up once, and the first attempt runs up to
\* its first await
Invoke(k, endpoint, kwargs) ==
    Issue([k EXCEPT !.endpoint = endpoint,
                    !.params = kwargs.params,
                    !.headers = kwargs.headers,
                    !.max_tries = async_request.max_tries,
                    !.made_by = async_request.made_by,
                    !.tries = 0,
                    !.log = << >>,
                    !.waits = 0,
                    !.result = NoResult])

\* the other tasks whose call is waiting out a backoff delay
Waiting(c) == {d \in Calls \ {c} : call[d].pc = "sleep"}

Runnable_busy_wait(c) == Waiting(c) = {}

\* the event loop can run task c: the wrapper of a coroutine function waits
\* with await asyncio.sleep, which gives the loop to the other tasks
Runnable(c) == TRUE

\* a task starts operation op, which requests endpoint with kwargs; `during`
\* records the waits of other calls that it starts in
Begin(c, op, endpoint, kwargs) ==
    /\ call[c].pc = "idle"
    /\ Runnable(c)
    /\ call' = [call EXCEPT ![c] =
                  Invoke([IdleCall EXCEPT !.op = op, !.during = Waiting(c)],
                         endpoint, kwargs)]
    /\ UNCHANGED <<config, outside, session_closed, async_request>>

\* a public data operation: with the pre-request status check enabled it
\* asks the status endpoint first and keeps its own request for afterwards
DataOperation(c, op, endpoint, kwargs) ==
    IF check_status_before_request
    THEN /\ call[c].pc = "idle"
         /\ Runnable(c)
         /\ call' = [call EXCEPT ![c] =
                Invoke([IdleCall EXCEPT !.op = op,
                                        !.during = Waiting(c),
                                        !.stage = "status",
                                        !.target = [endpoint |-> endpoint,
                                                    kwargs |-> kwargs]],
                       "status", NoKwargs)]
         /\ UNCHANGED <<config, outside, session_closed, async_request>>
    ELSE Begin(c, op, endpoint, kwargs)

uv_forecast_asks_uv(c) ==
    DataOperation(c, [name |-> "uv_forecast", args |-> << >>], "uv", NoKwargs)

uv_forecast(c) ==
    DataOperation(c, [name |-> "uv_forecast", args |-> << >>], "forecast", NoKwargs)

uv_index(c) ==
    DataOperation(c, [name |-> "uv_index", args |-> << >>], "uv", NoKwargs)

uv_protection_window(c, low, high) ==
    DataOperation(c, [name |-> "uv_protection_window", args |-> <<low, high>>],
                  "protection",
                  [params |-> << <<"from", FloatStr(low)>>, <<"to", FloatStr(high)>> >>,
                   headers |-> << >>])

\* usage statistics: the stat endpoint, no extra parameters
api_statistics(c) ==
    DataOperation(c, [name |-> "api_statistics", args |-> << >>], "stat", NoKwargs)

\* a caller uses Client.async_request directly, with its own kwargs
async_request_direct(c, endpoint, kwargs) ==
    Begin(c, [name |-> "async_request", args |-> << >>], endpoint, kwargs)

\* the attempt in flight of call c meets outcome o: the rest of
\* _async_request (lines 90-101), then the wrapper's handling of its result
Response(c, o) ==
    /\ call[c].pc = "inflight"
    /\ Runnable(c)
    /\ LET k == call[c]
           u == k.use_running_session
           err == RaisedBy(o, Url(k.endpoint, k.params))
           completes == err = NoExc
           closes == completes /\ CloseAfterUse(u)
           log2 == Append(k.log,
                          [session |-> IF u THEN "supplied" ELSE "transient",
                           outcome |-> o])
           k2 == [k EXCEPT !.log = log2,
                           !.transient_open =
                               IF closes /\ ~u THEN k.transient_open - 1
                               ELSE k.transient_open]
       IN  /\ session_closed' = IF closes /\ u THEN TRUE ELSE session_closed
           /\ call' = [call EXCEPT ![c] =
                  IF completes
                  THEN [k2 EXCEPT !.pc = "done", !.result = Return(Json(o.body))]
                  ELSE IF ~Retried(err)
                  THEN [k2 EXCEPT !.pc = "done",
                                  !.result = Raise(err.type, err.str, NoExc)]
                  ELSE IF giveup(err) \/ max_tries_exceeded(k.tries, max_tries_of(k))
                  THEN [k2 EXCEPT !.pc = "done",
                                  !.result = handle_on_giveup(Excs(k2))]
                  ELSE [k2 EXCEPT !.pc = "sleep", !.waits = k.waits + 1]]
    /\ UNCHANGED <<config, outside, async_request>>

Wake_consumes_a_retry(c) ==
    /\ call[c].pc = "sleep"
    /\ call[c].tries < MaxAttempts
    /\ Runnable(c)
    /\ call' = [d \in Calls |->
                  IF d = c THEN Issue(call[c])
                  ELSE [call[d] EXCEPT !.during = @ \ {c}]]
    /\ request_retries' = IF request_retries > 0 THEN request_retries - 1 ELSE 0
    /\ UNCHANGED <<api_key, session, latitude, longitude, altitude,
                   check_status_before_request, outside, session_closed,
                   async_request>>

\* await asyncio.sleep(seconds) returns: the loop makes its next attempt,
\* and the wait is over for the calls that started in it
Wake(c) ==
    /\ call[c].pc = "sleep"
    /\ call[c].tries < MaxAttempts
    /\ Runnable(c)
    /\ call' = [d \in Calls |->
                  IF d = c THEN Issue(call[c])
                  ELSE [call[d] EXCEPT !.during = @ \ {c}]]
    /\ UNCHANGED <<config, outside, session_closed, async_request>>

\* the caller takes the result (or catches the exception) of its call
Finish(c) ==
    /\ call[c].pc = "done"
    /\ Runnable(c)
    /\ call[c].stage = "data"
    /\ call' = [call EXCEPT ![c] = IdleCall]
    /\ UNCHANGED <<config, outside, session_closed, async_request>>

disable_request_retries_keeps_one_retry ==
    /\ async_request' = wrap_request_method(2, "disable_request_retries")
    /\ UNCHANGED <<config, outside, session_closed, call>>

disable_request_retries ==
    /\ async_request' = wrap_request_method(1, "disable_request_retries")
    /\ UNCHANGED <<config, outside, session_closed, call>>

enable_request_retries_uses_default ==
    /\ async_request' = wrap_request_method(DEFAULT_REQUEST_RETRIES,
                                            "enable_request_retries")
    /\ UNCHANGED <<config, outside, session_closed, call>>

enable_request_retries ==
    /\ async_request' = wrap_request_method(request_retries, "enable_request_retries")
    /\ UNCHANGED <<config, outside, session_closed, call>>

\* whether a decoded status payload reports the API as available
Available(data) == data.decoded = "status_true"

\* what the operation keeps of the status answer
StatusAnswer(data) == IF Available(data) THEN "available" ELSE "unavailable"

StatusChecked_ignores_status(c) ==
    /\ call[c].pc = "done"
    /\ call[c].stage = "status"
    /\ Runnable(c)
    /\ LET k == call[c]
       IN  call' = [call EXCEPT ![c] =
              IF k.result.kind = "raise"
              THEN [k EXCEPT !.stage = "data"]
              ELSE Invoke([k EXCEPT !.stage = "data",
                                    !.api_status = StatusAnswer(k.result.data)],
                          k.target.endpoint, k.target.kwargs)]
    /\ UNCHANGED <<config, outside, session_closed, async_request>>

\* the status request of a data operation has ended: its error goes to the
\* caller, an unavailable API raises ApiUnavailableError, and otherwise the
\* operation's own request is made
StatusChecked(c) ==
    /\ call[c].pc = "done"
    /\ call[c].stage = "status"
    /\ Runnable(c)
    /\ LET k == call[c]
       IN  call' = [call EXCEPT ![c] =
              IF k.result.kind = "raise"
              THEN [k EXCEPT !.stage = "data"]
              ELSE IF ~Available(k.result.data)
              THEN [k EXCEPT !.stage = "data",
                             !.api_status = StatusAnswer(k.result.data),
                             !.result = Raise("ApiUnavailableError",
                                              "The OpenUV API is unavailable",
                                              NoExc)]
              ELSE Invoke([k EXCEPT !.stage = "data",
                                    !.api_status = StatusAnswer(k.result.data)],
                          k.target.endpoint, k.target.kwargs)]
    /\ UNCHANGED <<config, outside, session_closed, async_request>>

\* the caller closes the session it supplied
CloseSession ==
    /\ session = "supplied"
    /\ ~session_closed
    /\ session_closed' = TRUE
    /\ UNCHANGED <<config, outside, async_request, call>>

(***************************************************************************)
(* util.validate_api_key.                                                  *)
(***************************************************************************)
\* the URL validate_api_key requests
VALIDATE_URL == "https://api.openuv.io/api/v1/forecast"

\* the request of validate_api_key(key, websession)
ValidateRequest(key) ==
    [method |-> "get", url |-> VALIDATE_URL,
     headers |-> << <<"x-access-token", key>> >>, session |-> "websession"]

validate_result_any_success(status) == status \in 200..299

\* line 11: resp.status == 200
validate_result(status) == status = 200

\* validate_api_key(key, websession) up to its await: a closed session
\* refuses the request with RuntimeError, an open one sends it
validate_api_key(c, key) ==
    /\ call[c].pc = "idle"
    /\ call' = [call EXCEPT ![c] =
          IF websession_closed
          THEN [IdleCall EXCEPT
                  !.pc = "done",
                  !.op = [name |-> "validate_api_key", args |-> <<key>>],
                  !.result = Raise("RuntimeError", "Session is closed", NoExc)]
          ELSE [IdleCall EXCEPT
                  !.pc = "validating",
                  !.op = [name |-> "validate_api_key", args |-> <<key>>],
                  !.tries = 1,
                  !.use_running_session = TRUE,
                  !.sent = <<ValidateRequest(key)>>]]
    /\ UNCHANGED <<config, outside, session_closed, async_request>>

\* the request of validate_api_key meets outcome o: a response of any status
\* is compared with 200, a failure below HTTP is raised as it is
ValidateResponse(c, o) ==
    /\ call[c].pc = "validating"
    /\ LET k == call[c]
           err == RaisedBy(o, VALIDATE_URL)
       IN  call' = [call EXCEPT ![c] =
              [k EXCEPT
                 !.pc = "done",
                 !.log = Append(k.log, [session |-> "websession", outcome |-> o]),
                 !.result = IF o.kind = "response"
                            THEN Return(validate_result(o.status))
                            ELSE Raise(err.type, err.str, NoExc)]]
    /\ UNCHANGED <<config, outside, session_closed, async_request>>

\* the caller closes the session it gives to validate_api_key
CloseWebsession ==
    /\ ~websession_closed
    /\ websession_closed' = TRUE
    /\ UNCHANGED <<config, class_cause, session_closed, async_request, call>>

(***************************************************************************)
(* errors.raise_error.                                                     *)
(***************************************************************************)
\* errors.ERROR_MESSAGE_MAP, in the order of its items
ERROR_MESSAGE_MAP ==
    << <<"User with API Key not found", "InvalidApiKeyError">>,
       <<"Daily API quota exceeded", "RateLimitExceededError">> >>

\* payload.get(key): "None" when the payload has no such key
Get(payload, key) ==
    LET at == {i \in 1..Len(payload) : payload[i][1] = key}
    IN  IF at = {} THEN "None"
        ELSE payload[CHOOSE i \in at : \A j \in at : i <= j][2]

ErrorClass_last_marker(error_msg) ==
    LET at == {i \in 1..Len(ERROR_MESSAGE_MAP) :
                  Contains(error_msg, ERROR_MESSAGE_MAP[i][1])}
    IN  IF at = {} THEN "RequestError"
        ELSE ERROR_MESSAGE_MAP[CHOOSE i \in at : \A j \in at : i >= j][2]

\* lines 59-62: the class of the first marker found in error_msg, else
\* RequestError
ErrorClass(error_msg) ==
    LET at == {i \in 1..Len(ERROR_MESSAGE_MAP) :
                  Contains(error_msg, ERROR_MESSAGE_MAP[i][1])}
    IN  IF at = {} THEN "RequestError"
        ELSE ERROR_MESSAGE_MAP[CHOOSE i \in at : \A j \in at : i <= j][2]

\* raise_error(endpoint, payload, raising_err): nothing for a payload without
\* "error"; otherwise line 64 assigns raising_err to the attribute __cause__
\* of the error class, and line 65 raises an instance of it
raise_error(c, endpoint, payload, raising_err) ==
    /\ call[c].pc = "idle"
    /\ LET error_msg == Get(payload, "error")
           exc == ErrorClass(error_msg)
           op == [name |-> "raise_error",
                  args |-> <<endpoint, payload, raising_err>>]
       IN  IF error_msg = "None"
           THEN /\ call' = [call EXCEPT ![c] =
                      [IdleCall EXCEPT !.pc = "done", !.op = op,
                                       !.result = Return("None")]]
                /\ UNCHANGED class_cause
           ELSE /\ call' = [call EXCEPT ![c] =
                      [IdleCall EXCEPT
                         !.pc = "done", !.op = op,
                         !.result = Raise(exc,
                             "Error while querying " \o endpoint \o ": "
                                 \o error_msg,
                             NoExc)]]
                /\ class_cause' = [class_cause EXCEPT ![exc] = raising_err]
    /\ UNCHANGED <<config, websession_closed, session_closed, async_request>>

\* what reading __cause__ of the error of call record k gives: the attribute
\* of its class when line 64 has set one, else the one the raise gave it
Cause(k) ==
    IF k.result.type \in DOMAIN class_cause
         /\ class_cause[k.result.type] # Unset
    THEN class_cause[k.result.type]
    ELSE k.result.cause

\* the tasks that call the client under Spec
Active == {"a"}

\* the (low, high) arguments of uv_protection_window, in thousandths
Windows == { <<DEFAULT_PROTECTION_LOW, DEFAULT_PROTECTION_HIGH>> }

Next ==
    \/ \E c \in Active : uv_forecast(c)
    \/ \E c \in Active : uv_index(c)
    \/ \E c \in Active : \E w \in Windows : uv_protection_window(c, w[1], w[2])
    \/ \E c \in Active : \E o \in Outcomes : Response(c, o)
    \/ \E c \in Active : Wake(c)
    \/ \E c \in Active : Finish(c)
    \/ disable_request_retries
    \/ enable_request_retries
    \/ CloseSession

Spec == Init /\ [][Next]_vars

(***************************************************************************)
(* The public operations on the wire: every operation, requests made       *)
(* directly through Client.async_request, and the pre-request status check.*)
(***************************************************************************)
\* what the server answers on the status endpoint and on the others
ServerOutcomes(endpoint) ==
    IF endpoint = "status"
    THEN { [kind |-> "response", status |-> 200, body |-> "status_true"],
           [kind |-> "response", status |-> 200, body |-> "status_false"],
           [kind |-> "timeout", status |-> 0, body |-> "empty"] }
    ELSE { [kind |-> "response", status |-> 200, body |-> "payload"],
           [kind |-> "response", status |-> 200, body |-> "statistics"],
           [kind |-> "response", status |-> 200, body |-> "garbage"],
           [kind |-> "response", status |-> 403, body |-> "nokey"],
           [kind |-> "timeout", status |-> 0, body |-> "empty"] }

\* the (low, high) arguments of uv_protection_window, in thousandths
OpsWindows ==
    { <<DEFAULT_PROTECTION_LOW, DEFAULT_PROTECTION_HIGH>>, <<1000, 6250>> }

\* (endpoint, kwargs) of the requests made directly through async_request
DirectRequests ==
    { <<"uv", [params |-> << <<"lat", "0.0">>, <<"dt", "2018-07-30">>,
                             <<"alt", "8848.0">> >>,
               headers |-> << <<"x-access-token", "other">>,
                              <<"accept", "application/json">> >>]>> }

InitOps == \E check \in BOOLEAN : Construct(check)

NextOps ==
    \/ \E c \in Active : uv_forecast(c)
    \/ \E c \in Active : uv_index(c)
    \/ \E c \in Active : \E w \in OpsWindows : uv_protection_window(c, w[1], w[2])
    \/ \E c \in Active : api_statistics(c)
    \/ \E c \in Active : \E d \in DirectRequests : async_request_direct(c, d[1], d[2])
    \/ \E c \in Active : \E o \in ServerOutcomes(call[c].endpoint) : Response(c, o)
    \/ \E c \in Active : StatusChecked(c)
    \/ \E c \in Active : Wake(c)
    \/ \E c \in Active : Finish(c)
    \/ disable_request_retries
    \/ enable_request_retries
    \/ CloseSession

SpecOps == InitOps /\ [][NextOps]_vars

\* the keys given to validate_api_key
Keys == {TEST_API_KEY, "", "abcde"}

\* what the request of validate_api_key meets
ValidateOutcomes ==
    { [kind |-> "response", status |-> 200, body |-> "payload"],
      [kind |-> "response", status |-> 204, body |-> "empty"],
      [kind |-> "response", status |-> 401, body |-> "nokey"],
      [kind |-> "response", status |-> 403, body |-> "empty"],
      [kind |-> "response", status |-> 500, body |-> "empty"],
      [kind |-> "timeout", status |-> 0, body |-> "empty"],
      [kind |-> "disconnect", status |-> 0, body |-> "empty"] }

NextUtil ==
    \/ \E c \in Calls : \E key \in Keys : validate_api_key(c, key)
    \/ \E c \in Calls : \E o \in ValidateOutcomes : ValidateResponse(c, o)
    \/ \E c \in Calls : Finish(c)
    \/ CloseWebsession

SpecUtil == Init /\ [][NextUtil]_vars

\* what an attempt meets under SpecTasks
TaskOutcomes ==
    { [kind |-> "response", status |-> 200, body |-> "payload"],
      [kind |-> "response", status |-> 403, body |-> "nokey"],
      [kind |-> "timeout", status |-> 0, body |-> "empty"] }

\* the payloads given to raise_error
Payloads ==
    { << >>,
      << <<"error", "User with API Key not found">> >>,
      << <<"error", "Daily API quota exceeded">> >>,
      << <<"error", "Invalid date">> >>,
      << <<"error", "Daily API quota exceeded; User with API Key not found">>,
         <<"result", "None">> >> }

\* the raising_err given to raise_error: None or a caught exception
RaisingErrs == { NoExc, [type |-> "KeyError", str |-> "'result'"] }

\* two tasks share one client and the error classes
NextTasks ==
    \/ \E c \in Calls : uv_index(c)
    \/ \E c \in Calls : \E o \in TaskOutcomes : Response(c, o)
    \/ \E c \in Calls : Wake(c)
    \/ \E c \in Calls : Finish(c)
    \/ \E c \in Calls : \E p \in Payloads : \E e \in RaisingErrs :
          raise_error(c, "uv", p, e)

InitTasks ==
    /\ Init
    /\ session = "None"
    /\ latitude = FloatStr(51403)

SpecTasks == InitTasks /\ [][NextTasks]_vars

TypeOK ==
    /\ request_retries \in 0..MaxRetries
    /\ session \in {"None", "supplied"}
    /\ session_closed \in BOOLEAN
    /\ \A c \in Calls :
         /\ call[c].pc \in {"idle", "inflight", "sleep", "done", "validating"}
         /\ call[c].tries \in 0..MaxAttempts
         /\ Len(call[c].log) \in {call[c].tries, call[c].tries - 1}

(***************************************************************************)
(* Vocabulary of the properties.                                           *)
(***************************************************************************)
\* a transient failure: a timeout or a transport-level error
Transient(o) == o.kind \in {"timeout", "disconnect"}

AllTransient(log) == \A i \in 1..Len(log) : Transient(log[i].outcome)

\* an authorization failure: a response with status 401 or 403
Unauthorized(o) == o.kind = "response" /\ o.status \in {401, 403}

\* a 200 response with a decodable JSON body
Succeeds(o) == o.kind = "response" /\ o.status = 200 /\ o.body = "payload"

\* the call of record k was started while retries were enabled
RetriesEnabled(k) == k.made_by \in {"__init__", "enable_request_retries"}

Last(log) == log[Len(log)]

(***************************************************************************)
(* Properties.                                                             *)
(***************************************************************************)
\* C1: when a call has ended (returned or raised), every session the
\* executor created for it has been closed, whatever the exit path.
C1_TransientSessionClosed ==
    \A c \in Calls : call[c].pc = "done" => call[c].transient_open = 0

\* C2: an attempt that fails with status 401 or 403 is the last attempt of
\* its call (here: of a call with a positive max_tries): no backoff wait and
\* no further attempt follows it, and the call ends raising
\* InvalidApiKeyError.
C2_NoRetryWhenUnauthorized ==
    \A c \in Calls : \A i \in 1..Len(call[c].log) :
        (call[c].max_tries >= 1 /\ Unauthorized(call[c].log[i].outcome)) =>
            /\ call[c].pc = "done"
            /\ call[c].tries = i
            /\ call[c].result.type = "InvalidApiKeyError"

C4_UnauthorizedRaisesInvalidApiKey ==
    \A c \in Calls :
        (/\ call[c].pc = "done"
         /\ call[c].max_tries >= 1
         /\ \E i \in 1..Len(call[c].log) :
               /\ Unauthorized(call[c].log[i].outcome)
               /\ call[c].log[i].outcome.body # "quota")
        => call[c].result.type = "InvalidApiKeyError"

\* C5: a call that gives up on a 403 response whose body carries the
\* rate-limit marker raises RateLimitExceededError.
C5_RateLimitMarkerWins ==
    \A c \in Calls :
        (/\ call[c].pc = "done"
         /\ Len(call[c].log) >= 1
         /\ Last(call[c].log).outcome.status = 403
         /\ Last(call[c].log).outcome.body = "quota")
        => call[c].result.type = "RateLimitExceededError"

\* C6: a call that gives up on a failure that is not an authorization
\* failure (status 500, timeout, transport error) raises RequestError and not
\* InvalidApiKeyError, for every endpoint, location and extra parameter.
C6_OtherFailureRaisesRequestError ==
    \A c \in Calls :
        (/\ call[c].pc = "done"
         /\ call[c].result.kind = "raise"
         /\ Len(call[c].log) >= 1
         /\ \/ Transient(Last(call[c].log).outcome)
            \/ Last(call[c].log).outcome.status = 500)
        => call[c].result.type = "RequestError"

\* C7: a call started after disable_request_retries makes one attempt and
\* never waits; when that attempt fails with a transient error the call has
\* ended, raising RequestError caused by the exception of that attempt.
C7_DisabledRaisesImmediately ==
    \A c \in Calls :
        LET k == call[c]
        IN  k.made_by = "disable_request_retries" =>
              /\ k.tries <= 1
              /\ k.waits = 0
              /\ k.pc # "sleep"
              /\ (Len(k.log) = 1 /\ Transient(k.log[1].outcome)) =>
                    /\ k.pc = "done"
                    /\ k.result.kind = "raise"
                    /\ k.result.type = "RequestError"
                    /\ k.result.cause = Excs(k)[1]

\* a call started with retries disabled raised after one transient failure
C7_Witness ==
    \E c \in Calls :
        /\ call[c].made_by = "disable_request_retries"
        /\ request_retries >= 2
        /\ call[c].pc = "done"
        /\ Len(call[c].log) = 1
        /\ Transient(call[c].log[1].outcome)
        /\ call[c].result.kind = "raise"

\* C8: a call that has ended with every attempt failing on a transient error
\* made exactly max_tries attempts and raises RequestError whose cause and
\* message are those of the exception of the last attempt.
C8_GiveUpClassifiesLastAttempt ==
    \A c \in Calls :
        LET k == call[c]
        IN  (k.pc = "done" /\ Len(k.log) >= 1 /\ AllTransient(k.log)) =>
              /\ k.tries = k.max_tries
              /\ k.result.kind = "raise"
              /\ k.result.type = "RequestError"
              /\ k.result.cause = Last(Excs(k))
              /\ k.result.msg = Last(Excs(k)).str

\* a call gave up after two transient failures of different kinds, the last
\* one a timeout
C8_Witness ==
    \E c \in Calls :
        /\ call[c].pc = "done"
        /\ call[c].tries >= 2
        /\ AllTransient(call[c].log)
        /\ call[c].log[1].outcome.kind = "disconnect"
        /\ Last(call[c].log).outcome.kind = "timeout"
        /\ call[c].result.type = "RequestError"

\* C9: no step of a call changes the supplied session or its open/closed
\* state, and an attempt started while the supplied session is open is
\* issued on it, without creating a session.
C9_SuppliedSessionUntouched ==
    [][ /\ (call' # call) => (session' = session /\ session_closed' = session_closed)
        /\ \A c \in Calls :
             (/\ call'[c].pc = "inflight"
              /\ call[c].pc # "inflight"
              /\ session = "supplied"
              /\ ~session_closed)
             => /\ call'[c].use_running_session
                /\ call'[c].transient_open = call[c].transient_open ]_vars

\* a retried call has ended with all its attempts issued on the supplied
\* session, which is still open
C9_Witness ==
    \E c \in Calls :
        /\ session = "supplied"
        /\ ~session_closed
        /\ call[c].pc = "done"
        /\ call[c].tries >= 2
        /\ \A i \in 1..Len(call[c].log) : call[c].log[i].session = "supplied"
        /\ call[c].transient_open = 0

\* C10: a call whose last attempt failed ends raising a subtype of
\* OpenUvError: nothing else is raised and no failure is returned as a value.
C10_FailuresAreTyped ==
    \A c \in Calls :
        (call[c].pc = "done" /\ Len(call[c].log) >= 1) =>
            /\ call[c].result.kind = "raise" => call[c].result.type \in OpenUvError
            /\ ~Succeeds(Last(call[c].log).outcome) => call[c].result.kind = "raise"

\* the public data operations and the endpoint each one is for
DataOperations ==
    {"uv_index", "uv_forecast", "uv_protection_window", "api_statistics"}

OwnEndpoint(name) ==
    CASE name = "uv_index" -> "uv"
      [] name = "uv_forecast" -> "forecast"
      [] name = "uv_protection_window" -> "protection"
      [] name = "api_statistics" -> "stat"
      [] OTHER -> ""

\* request r goes to the given endpoint
Asks(r, endpoint) ==
    LET prefix == API_URL_SCAFFOLD \o "/" \o endpoint \o "?"
    IN  Len(r.url) >= Len(prefix) /\ SubSeq(r.url, 1, Len(prefix)) = prefix

\* a 200 response with a JSON body
Decodable(o) ==
    o.kind = "response" /\ o.status = 200 /\ o.body \notin {"garbage", "html"}

Has(pairs, key) == \E i \in 1..Len(pairs) : pairs[i][1] = key

\* the values given for key in a dict kept as pairs
Values(pairs, key) == {pairs[i][2] : i \in {j \in 1..Len(pairs) : pairs[j][1] = key}}

C13_RequestCarriesKeyAndLocation ==
    \A c \in Calls : \A i \in 1..Len(call[c].sent) :
        LET k == call[c]
            r == k.sent[i]
        IN  /\ Values(r.headers, "x-access-token") = {api_key}
            /\ Values(r.params, "lat") = {latitude}
            /\ Values(r.params, "lng") = {longitude}
            /\ Values(r.params, "alt") = {altitude}
            /\ Cardinality({j \in 1..Len(r.params) :
                              r.params[j][1] \in {"lat", "lng", "alt"}}) = 3
            /\ Contains(r.url, "lat=" \o latitude)
            /\ Contains(r.url, "lng=" \o longitude)
            /\ Contains(r.url, "alt=" \o altitude)
            /\ ~Asks(r, "status") =>
                 /\ \A j \in 1..Len(k.params) :
                       k.params[j][1] \notin {"lat", "lng", "alt"}
                          => Values(r.params, k.params[j][1]) = {k.params[j][2]}
                 /\ \A j \in 1..Len(k.headers) :
                       k.headers[j][1] # "x-access-token"
                          => Values(r.headers, k.headers[j][1]) = {k.headers[j][2]}
                 /\ k.op.name = "uv_protection_window" =>
                       /\ Values(r.params, "from") = {FloatStr(k.op.args[1])}
                       /\ Values(r.params, "to") = {FloatStr(k.op.args[2])}
                       /\ k.op.args = <<DEFAULT_PROTECTION_LOW, DEFAULT_PROTECTION_HIGH>>
                            => /\ Values(r.params, "from") = {"3.5"}
                               /\ Values(r.params, "to") = {"3.5"}

\* a direct request that passed its own lat, alt and token was retried, and
\* both attempts carried the client's instead
C13_Witness ==
    \E c \in Calls :
        /\ call[c].op.name = "async_request"
        /\ Has(call[c].params, "lat")
        /\ Values(call[c].params, "lat") # {latitude}
        /\ Len(call[c].sent) >= 2
        /\ Values(call[c].sent[2].params, "dt") = {"2018-07-30"}

\* max_tries of a wrapper built by the method named made_by
ExpectedMaxTries(made_by) ==
    IF made_by = "disable_request_retries" THEN 1 ELSE request_retries

\* C14: the wrapper in force has max_tries 1 when the last toggle was
\* disable_request_retries and the constructor's request_retries when it was
\* enable_request_retries or when there was none, however often and in
\* whatever order the toggles were used; a call uses the max_tries of the
\* wrapper it was started with.
C14_ToggleSelectsMaxTries ==
    /\ async_request.max_tries = ExpectedMaxTries(async_request.made_by)
    /\ \A c \in Calls :
          call[c].pc # "idle" =>
              call[c].max_tries = ExpectedMaxTries(call[c].made_by)

\* a call started after enable_request_retries is at its second attempt
C14_Witness ==
    \E c \in Calls :
        /\ call[c].made_by = "enable_request_retries"
        /\ request_retries >= 2
        /\ call[c].max_tries = request_retries
        /\ call[c].tries = 2

\* C15: the message of every error raised for a failed request contains the
\* name of the endpoint that was requested.
C15_ErrorNamesEndpoint ==
    \A c \in Calls :
        (/\ call[c].pc = "done"
         /\ call[c].result.kind = "raise"
         /\ call[c].result.type \in OpenUvError)
        => Contains(call[c].result.msg, call[c].endpoint)

\* the larger of two numbers
Max(a, b) == IF a >= b THEN a ELSE b

\* C18: with retries enabled, a call whose attempts all fail with a
\* transient error makes at most max(1, request_retries) attempts, and has
\* ended raising once it has made that many.
C18_GivesUpWithinMaxTries ==
    \A c \in Calls :
        LET k == call[c]
        IN  (RetriesEnabled(k) /\ k.pc # "idle" /\ AllTransient(k.log)) =>
              /\ k.tries <= Max(1, request_retries)
              /\ Len(k.log) = Max(1, request_retries)
                    => (k.pc = "done" /\ k.result.kind = "raise")

\* C19: a call keeps the max_tries of the wrapper that was in force when it
\* started: no step changes it while the call is in progress, a call takes
\* it from the wrapper in force at its start, and the call waits or gives up
\* according to it, whatever wrapper is in force by then.
C19_InFlightKeepsMaxTries ==
    [][ \A c \in Calls :
          /\ (call[c].pc # "idle" /\ call'[c].pc # "idle"
                                  /\ call'[c].stage = call[c].stage)
                => call'[c].max_tries = call[c].max_tries
          /\ (call[c].pc = "idle" /\ call'[c].pc # "idle")
                => call'[c].max_tries = async_request.max_tries
          /\ (call[c].pc = "inflight" /\ call'[c].pc = "sleep")
                => call[c].tries # call[c].max_tries
          /\ (/\ call[c].pc = "inflight"
              /\ call'[c].pc = "done"
              /\ call'[c].result.kind = "raise"
              /\ call'[c].result.type \in OpenUvError)
                => call[c].tries = call[c].max_tries ]_vars

\* a call started with two tries gave up after its second attempt although
\* retries had been disabled while it was in progress
C19_Witness ==
    \E c \in Calls :
        /\ call[c].pc = "done"
        /\ call[c].result.kind = "raise"
        /\ call[c].tries = 2
        /\ call[c].max_tries = 2
        /\ async_request.max_tries = 1

\* C20: an attempt that starts while the supplied session is open is issued
\* on it; an attempt that starts while there is no supplied session, or
\* while it is closed, is issued on a session created for it with total
\* timeout DEFAULT_TIMEOUT.
C20_NoAttemptOnClosedSession ==
    [][ \A c \in Calls :
          (call'[c].pc = "inflight" /\ call[c].pc # "inflight") =>
              LET r == Last(call'[c].sent)
              IN  IF session = "supplied" /\ ~session_closed
                  THEN r.session = "supplied"
                  ELSE /\ r.session = "transient"
                       /\ r.timeout = DEFAULT_TIMEOUT
                       /\ ~call'[c].use_running_session
                       /\ call'[c].transient_open = call[c].transient_open + 1 ]_vars

\* the supplied session was closed between two attempts of a call: the first
\* went on it, the second on a created session
C20_Witness ==
    \E c \in Calls :
        /\ session = "supplied"
        /\ session_closed
        /\ Len(call[c].sent) >= 2
        /\ call[c].sent[1].session = "supplied"
        /\ call[c].sent[2].session = "transient"
        /\ call[c].sent[2].timeout = DEFAULT_TIMEOUT

\* C16: validate_api_key sends one GET for the forecast URL with the given
\* key as x-access-token; when the request is answered it returns TRUE if the
\* status is 200 and FALSE, without raising, for any other status; and its
\* steps leave the session it was given open or closed as it was.
C16_ValidIffStatus200 ==
    [][ \A c \in Calls :
          call'[c] # call[c] =>
            /\ websession_closed' = websession_closed
            /\ (call[c].pc = "idle" /\ call'[c].pc = "validating") =>
                  \E key \in Keys :
                      /\ call'[c].op.args = <<key>>
                      /\ call'[c].sent =
                            << [method |-> "get",
                                url |-> API_URL_SCAFFOLD \o "/forecast",
                                headers |-> << <<"x-access-token", key>> >>,
                                session |-> "websession"] >>
            /\ (call[c].pc = "validating" /\ call'[c].pc # "validating") =>
                  LET o == Last(call'[c].log).outcome
                  IN  /\ call'[c].pc = "done"
                      /\ call'[c].sent = call[c].sent
                      /\ o.kind = "response" =>
                            /\ call'[c].result.kind = "return"
                            /\ call'[c].result.data = (o.status = 200) ]_vars

\* both answers have been given while the session stayed open: TRUE to a 200
\* and FALSE to a 403
C16_Witness ==
    /\ ~websession_closed
    /\ call["a"].op.name = "validate_api_key"
    /\ call["a"].result = Return(TRUE)
    /\ Last(call["a"].log).outcome.status = 200
    /\ call["b"].op.name = "validate_api_key"
    /\ call["b"].result = Return(FALSE)
    /\ Last(call["b"].log).outcome.status = 403

\* the exception the error of call record k was raised for: the raising_err
\* given to raise_error, or the exception of the call's own last attempt
OwnCause(k) ==
    IF k.op.name = "raise_error" THEN k.op.args[3] ELSE Last(Excs(k))

\* C17: the error a call has ended with depends on that call alone: the
\* cause read from it is the exception it was raised for, whatever other
\* tasks, or earlier calls, have raised.
C17_ErrorIsTheCallsOwn ==
    \A c \in Calls :
        (/\ call[c].pc = "done"
         /\ call[c].result.kind = "raise"
         /\ call[c].result.type \in OpenUvError)
        => Cause(call[c]) = OwnCause(call[c])

\* C21: raise_error returns without raising for a payload that has no
\* "error"; otherwise it raises InvalidApiKeyError when the error message
\* contains the invalid-key marker, else RateLimitExceededError when it
\* contains the quota marker, else RequestError, and the message of the
\* raised error contains the endpoint and the error message.
C21_RaiseErrorClassifies ==
    \A c \in Calls :
        (call[c].pc = "done" /\ call[c].op.name = "raise_error") =>
            LET endpoint == call[c].op.args[1]
                payload == call[c].op.args[2]
                has_error == \E i \in 1..Len(payload) : payload[i][1] = "error"
                error_msg == Get(payload, "error")
            IN  IF ~has_error
                THEN call[c].result.kind = "return"
                ELSE /\ call[c].result.kind = "raise"
                     /\ call[c].result.type =
                          IF Contains(error_msg, "User with API Key not found")
                          THEN "InvalidApiKeyError"
                          ELSE IF Contains(error_msg, "Daily API quota exceeded")
                          THEN "RateLimitExceededError"
                          ELSE "RequestError"
                     /\ Contains(call[c].result.msg, endpoint)
                     /\ Contains(call[c].result.msg, error_msg)

\* an error message with both markers, the quota marker first in the text,
\* was raised as InvalidApiKeyError, and one with no marker as RequestError
C21_Witness ==
    /\ call["a"].pc = "done"
    /\ call["a"].op.name = "raise_error"
    /\ Contains(Get(call["a"].op.args[2], "error"), "Daily API quota exceeded")
    /\ Contains(Get(call["a"].op.args[2], "error"), "User with API Key not found")
    /\ call["a"].result.type = "InvalidApiKeyError"
    /\ call["b"].pc = "done"
    /\ call["b"].op.name = "raise_error"
    /\ call["b"].result.type = "RequestError"

\* C22: no step changes the API key, the latitude, longitude and altitude,
\* the configured retry count or the session reference; a step that changes
\* the retry wrapper is a toggle and changes nothing else, and a step of a
\* call leaves the retry wrapper as it is.
C22_ConfigurationIsKept ==
    [][ /\ api_key' = api_key
        /\ latitude' = latitude
        /\ longitude' = longitude
        /\ altitude' = altitude
        /\ request_retries' = request_retries
        /\ session' = session
        /\ async_request' # async_request =>
              /\ call' = call
              /\ session_closed' = session_closed
              /\ async_request'.made_by \in {"disable_request_retries",
                                             "enable_request_retries"}
        /\ call' # call => async_request' = async_request ]_vars

\* a request made with the caller's own lat, sent with the client's latitude,
\* was retried and has failed, and retries have been disabled since
C22_Witness ==
    \E c \in Calls :
        /\ call[c].pc = "done"
        /\ call[c].op.name = "async_request"
        /\ call[c].tries >= 2
        /\ call[c].result.kind = "raise"
        /\ Values(call[c].sent[1].params, "lat") = {latitude}
        /\ latitude # "0.0"
        /\ request_retries = call[c].max_tries
        /\ async_request = wrap_request_method(1, "disable_request_retries")

====
